---- MODULE Spec2Model ----
(***************************************************************************)
(* Model of the memcache loader (09_memc_load/memc_load_mp.py) and of the  *)
(* retry decorator of 04_testing/src/store.py.                             *)
(*                                                                         *)
(* Seven specifications share the module:                                  *)
(*   SpecParse  parse_appsinstalled applied to bounded lines               *)
(*   SpecWrite  one write through insert_appsinstalled (with the caller's  *)
(*              counting), one call of a function wrapped by store.retry,  *)
(*              or one call of Storage.get                                 *)
(*   Spec       main / handle_logfile / handle_insert_appsinstalled for a  *)
(*              directory of one file                                      *)
(*   SpecFair   the same steps under fair scheduling, for files of fewer   *)
(*              kinds of lines (termination)                               *)
(*   SpecFiles  the same steps for a directory of two files handled one    *)
(*              after the other                                            *)
(*   SpecReport the totals and the verdict of handle_logfile for workers   *)
(*              reporting large counters, and main's rename                *)
(*   SpecPool   main and its pool over several files, handle_logfile kept  *)
(*              to its start and its return                                *)
(***************************************************************************)
EXTENDS Integers, Sequences, FiniteSets, TLC

VARIABLES
    \* SpecParse: the line given to the parser and the parser's result
    p_pc, p_line, p_res,
    \* SpecWrite: the writer under test, the outcomes its client will produce,
    \* the state of the call and the counters of the calling worker
    h_kind, h_pc, h_script, h_wr, h_rt, h_cnt, h_nkeys,
    \* Spec: the module globals DEVICE_MEMC and CLIENTS
    DEVICE_MEMC, CLIENTS,
    \* Spec: main: the directory, the sorted glob result, the result of each
    \* task of the pool (the returned file name) and how many of them the loop
    \* has renamed
    main_pc, fs, fnames, returned, renamed,
    \* Spec: the handle_logfile call the pool process is in, its two queues
    \* and its worker threads
    hl, job_queue, result_queue, wk,
    \* Spec: history: how handle_logfile ended for each file ("running" while
    \* it is being handled), whether a worker timed out while the producer was
    \* still streaming, and the kind of input and cache client of the run
    ended, early_timeout, env

parse_vars == <<p_pc, p_line, p_res>>
write_vars == <<h_kind, h_pc, h_script, h_wr, h_rt, h_cnt, h_nkeys>>
global_vars == <<DEVICE_MEMC, CLIENTS>>
main_vars == <<main_pc, fs, fnames, returned, renamed>>
file_vars == <<hl, job_queue, result_queue, wk>>
hist_vars == <<ended, early_timeout, env>>
vars == <<parse_vars, write_vars, global_vars, main_vars, file_vars, hist_vars>>

(***************************************************************************)
(* Program constants                                                       *)
(***************************************************************************)
\* config["MEMC_MAX_RETRIES"]
MEMC_MAX_RETRIES == 3
\* config["MEMC_BACKOFF_FACTOR"] = 0.3, kept in tenths of a second
MEMC_BACKOFF_FACTOR == 3
\* Storage.MAX_RETRIES
MAX_RETRIES == 3
\* Storage.BACKOFF_FACTOR = 0.3, kept in tenths of a second
BACKOFF_FACTOR == 3
\* NORMAL_ERR_RATE = 0.01, kept in millionths
NORMAL_ERR_RATE == 10000
\* config["MAX_JOB_QUEUE_SIZE"]
MAX_JOB_QUEUE_SIZE == 0
\* config["MAX_RESULT_QUEUE_SIZE"]
MAX_RESULT_QUEUE_SIZE == 0

(***************************************************************************)
(* Bounds of the model                                                     *)
(***************************************************************************)
\* longest line, in tab-separated fields, handed to the parser
MaxFields == 6
\* longest client script (outcomes of successive client calls) of SpecWrite
MaxScript == 4
\* largest batch (number of keys) written in SpecWrite
MaxKeys == 2
\* longest input file, in lines
MaxLines == 2
\* largest processed and errors counters a worker reports in SpecReport
MaxProcessed == 201
MaxErrors == 2
\* mp.cpu_count(): the processes of the pool in SpecPool
NumProcesses == 2
\* config["THREADS_PER_WORKER"] (4 in the source), scaled down
THREADS_PER_WORKER == 2
\* config["LINES_COUNT_IN_BATCH"] (5000 in the source), scaled down
LINES_COUNT_IN_BATCH == 2

(***************************************************************************)
(* Strings and their conversions.  A line is the sequence of its           *)
(* tab-separated fields; the apps field is a string split on ",".          *)
(***************************************************************************)
RECURSIVE lstrip(_)
\* str.strip() on the left: "\t" and "" fields at the start are whitespace
lstrip(fields) ==
    IF fields = <<>> THEN <<>>
    ELSE IF Head(fields) = "" THEN lstrip(Tail(fields)) ELSE fields

RECURSIVE rstrip(_)
rstrip(fields) ==
    IF fields = <<>> THEN <<>>
    ELSE IF fields[Len(fields)] = "" THEN rstrip(SubSeq(fields, 1, Len(fields) - 1))
    ELSE fields

\* line.strip().split("\t"): a blank line splits into the single field ""
strip_split(fields) ==
    LET s == rstrip(lstrip(fields)) IN IF s = <<>> THEN <<"">> ELSE s

\* raw_apps.split(",")
split_comma(raw) ==
    CASE raw = "1"     -> <<"1">>
      [] raw = "1,42"  -> <<"1", "42">>
      [] raw = "1,x"   -> <<"1", "x">>
      [] raw = "x,42"  -> <<"x", "42">>
      [] raw = "1, 7"  -> <<"1", " 7">>
      [] raw = "x"     -> <<"x">>
      [] OTHER         -> <<raw>>

\* a.strip() of one token
strip_token(a) == IF a = " 7" THEN "7" ELSE a

\* the strings int() accepts
IntLiterals == {"1", "7", "42"}
\* int(s) for s in IntLiterals
int_of(s) == CASE s = "1" -> 1 [] s = "7" -> 7 [] s = "42" -> 42 [] OTHER -> 0

\* the strings float() accepts
FloatLiterals == {"55.5", "42.4"}

\* Python values of the lat / lon fields: a float or the str left in place
PyFloat(s) == [ty |-> "float", lit |-> s]
PyStr(s) == [ty |-> "str", lit |-> s]

(***************************************************************************)
(* parse_appsinstalled                                                     *)
(***************************************************************************)
NoRecord == [dev_type |-> "", dev_id |-> "", lat |-> PyStr(""), lon |-> PyStr(""),
             apps |-> <<>>]
\* results of a call: a returned AppsInstalled, a returned None, a raised exception
Returned(rec) == [kind |-> "record", exc |-> "", rec |-> rec]
ReturnedNone == [kind |-> "none", exc |-> "", rec |-> NoRecord]
Raised(exc) == [kind |-> "raise", exc |-> exc, rec |-> NoRecord]

\* [int(a.strip()) for a in raw_apps.split(",")] succeeds
all_int(tokens) == \A i \in 1..Len(tokens) : strip_token(tokens[i]) \in IntLiterals

\* the except ValueError branch: the comprehension's filter calls a.isidigit(),
\* which str does not have; split(",") is never empty, so the first token raises
apps_fallback(tokens) == Raised("AttributeError")

\* lat, lon = float(lat), float(lon): both converted or both left as they were
geo(lat, lon) ==
    IF lat \in FloatLiterals /\ lon \in FloatLiterals
    THEN <<PyFloat(lat), PyFloat(lon)>>
    ELSE <<PyStr(lat), PyStr(lon)>>

\* a mutation of geo_failed: the except branch gives the record up
geo_failed_dropped(rec) == ReturnedNone

\* except ValueError of lines 97-98: the failure is logged and line 99 returns
\* the record with lat and lon left as the strings they were
geo_failed(rec) == Returned(rec)

\* a mutation of too_short: the length test lets a 4-field line through
too_short_off_by_one(line_parts) == Len(line_parts) < 4

\* if len(line_parts) < 5
too_short(line_parts) == Len(line_parts) < 5

parse_appsinstalled(line) ==
    LET line_parts == strip_split(line) IN
    IF too_short(line_parts) THEN ReturnedNone
    ELSE IF Len(line_parts) # 5 THEN Raised("ValueError")
    ELSE LET dev_type == line_parts[1]
             dev_id == line_parts[2]
             tokens == split_comma(line_parts[5])
             g == geo(line_parts[3], line_parts[4])
         IN IF dev_type = "" \/ dev_id = "" THEN ReturnedNone
            ELSE IF ~all_int(tokens) THEN apps_fallback(tokens)
            ELSE LET rec == [dev_type |-> dev_type, dev_id |-> dev_id,
                             lat |-> g[1], lon |-> g[2],
                             apps |-> [i \in 1..Len(tokens) |->
                                          int_of(strip_token(tokens[i]))]]
                 IN IF g[1].ty = "str" THEN geo_failed(rec) ELSE Returned(rec)

(***************************************************************************)
(* Lines handed to the parser in SpecParse                                 *)
(***************************************************************************)
AppFields == {"1", "1,42", "1,x", "x,42", "1, 7", "x", ""}
FullLines ==
    {<<t, i, la, "42.4", a>> :
        t \in {"idfa", "unkn", ""}, i \in {"d1", ""}, la \in {"55.5", "bad"},
        a \in AppFields}
ParseLines ==
    {SubSeq(l, 1, k) : l \in FullLines, k \in 1..5}
    \cup {l \o [j \in 1..(MaxFields - 5) |-> "more"] : l \in FullLines}

(***************************************************************************)
(* insert_appsinstalled                                                    *)
(***************************************************************************)
\* what one call of the cache client does: "ok" returns a truthy result,
\* "falsy" completes and reports a non-success result (logical rejection),
\* "raise" raises (timeout, connection failure)
ClientOutcomes == {"ok", "falsy", "raise"}

\* a mutation of retry_nums: the loop runs past the configured limit
retry_nums_too_many == 1..(MEMC_MAX_RETRIES + 1)

\* range(1, config["MEMC_MAX_RETRIES"])
retry_nums == 1..(MEMC_MAX_RETRIES - 1)

RECURSIVE pow2(_)
pow2(n) == IF n = 0 THEN 1 ELSE 2 * pow2(n - 1)

\* a mutation of backoff_value: the exponent starts at 0
backoff_value_from_zero(retry_num) == MEMC_BACKOFF_FACTOR * pow2(retry_num - 1)

\* config["MEMC_BACKOFF_FACTOR"] * (2**retry_num)
backoff_value(retry_num) == MEMC_BACKOFF_FACTOR * pow2(retry_num)

\* the call before its first attempt: CLIENTS[dev_type] raises KeyError for a
\* device type without client, and every exception leaves as a raised error;
\* with dry_run the intended write is logged, and the for loop follows in
\* either case
insert_start(clients, dev_type, dry_run) ==
    [pc |-> IF dev_type \notin DOMAIN clients THEN "raised"
            ELSE IF retry_nums = {} THEN "returned" ELSE "loop",
     retry_num |-> 1, calls |-> 0, sleeps |-> <<>>, ok |-> FALSE,
     outcomes |-> <<>>, dry_run |-> dry_run,
     logged |-> (dry_run /\ dev_type \in DOMAIN clients)]

\* one iteration of the for loop, the client answering with outcome
insert_attempt(wr, outcome) ==
    LET called == [wr EXCEPT !.calls = @ + 1, !.outcomes = Append(@, outcome)] IN
    CASE outcome = "raise" -> [called EXCEPT !.pc = "raised"]
      [] outcome = "ok" -> [called EXCEPT !.pc = "returned", !.ok = TRUE]
      [] OTHER ->
            [called EXCEPT !.sleeps = Append(@, backoff_value(wr.retry_num)),
                           !.retry_num = @ + 1,
                           !.pc = IF wr.retry_num + 1 \in retry_nums
                                  THEN "loop" ELSE "returned"]

\* the try / except / else around insert_appsinstalled in the flush loop of
\* handle_insert_appsinstalled: errors += len(batch) or processed += len(batch)
count_batch(cnt, wr, nkeys) ==
    IF wr.pc = "raised"
    THEN [cnt EXCEPT !.errors = @ + nkeys]
    ELSE [cnt EXCEPT !.processed = @ + nkeys]

(***************************************************************************)
(* store.retry                                                             *)
(***************************************************************************)
\* what one call of the wrapped function does: "ok" returns, "listed" raises
\* one of the exceptions given to retry, "other" raises anything else
FuncOutcomes == {"ok", "listed", "other"}

\* a mutation of attempts: the loop runs once more than tries
attempts_too_many(tries) == 0..tries

\* range(tries)
attempts(tries) == 0..(tries - 1)

\* backoff_factor * (2**attempt)
delay(backoff_factor, attempt) == backoff_factor * pow2(attempt)

retry_start(tries) ==
    [pc |-> IF attempts(tries) = {} THEN "returned" ELSE "loop",
     attempt |-> 0, calls |-> 0, sleeps |-> <<>>, ret |-> "None",
     outcomes |-> <<>>]

\* a mutation of retry_attempt: the except clause catches every exception
retry_attempt_catch_all(rt, outcome, tries, backoff_factor) ==
    LET called == [rt EXCEPT !.calls = @ + 1, !.outcomes = Append(@, outcome)] IN
    CASE outcome = "ok" -> [called EXCEPT !.pc = "returned", !.ret = "value"]
      [] OTHER ->
            [called EXCEPT !.sleeps = Append(@, delay(backoff_factor, rt.attempt)),
                           !.attempt = @ + 1,
                           !.pc = IF rt.attempt + 1 \in attempts(tries)
                                  THEN "loop" ELSE "returned"]

\* one iteration of the wrapper's for loop
retry_attempt(rt, outcome, tries, backoff_factor) ==
    LET called == [rt EXCEPT !.calls = @ + 1, !.outcomes = Append(@, outcome)] IN
    CASE outcome = "ok" -> [called EXCEPT !.pc = "returned", !.ret = "value"]
      [] outcome = "other" -> [called EXCEPT !.pc = "raised"]
      [] OTHER ->
            [called EXCEPT !.sleeps = Append(@, delay(backoff_factor, rt.attempt)),
                           !.attempt = @ + 1,
                           !.pc = IF rt.attempt + 1 \in attempts(tries)
                                  THEN "loop" ELSE "returned"]

\* Storage.get: return self.storage.get(key), with no wrapper around it; the
\* call record is the wrapper's, so that both can be compared
get(rt, outcome) ==
    LET called == [rt EXCEPT !.calls = @ + 1, !.outcomes = Append(@, outcome)] IN
    IF outcome = "ok" THEN [called EXCEPT !.pc = "returned", !.ret = "value"]
    ELSE [called EXCEPT !.pc = "raised"]

(***************************************************************************)
(* Globals, options and the file system                                    *)
(***************************************************************************)
\* the command line: three device types with an address, adid given as ""
Options ==
    [idfa |-> "127.0.0.1:33013", gaid |-> "127.0.0.1:33014", adid |-> "",
     dvid |-> "127.0.0.1:33016", dry |-> FALSE]

PyNone == "None"
\* the truth value Python gives a str or None
truthy(v) == v \notin {PyNone, ""}
\* dict.get(key)
dict_get(d, key) == IF key \in DOMAIN d THEN d[key] ELSE PyNone

\* the device_memc dict built by create_memc_clients
device_memc_of(options) ==
    [k \in {"idfa", "gaid", "adid", "dvid"} |-> options[k]]

\* CLIENTS after the loop of create_memc_clients: a client per truthy address
clients_of(clients, device_memc) ==
    LET made == {k \in DOMAIN device_memc : truthy(device_memc[k])} IN
    [k \in (DOMAIN clients) \cup made |->
        IF k \in made THEN [addr |-> device_memc[k]] ELSE clients[k]]

\* a path is its directory, the number of "." put before the base name, and
\* the base name
Path(base) == [head |-> "/data/appsinstalled", dots |-> 0, base |-> base]
\* the base names of the directory, in lexicographic order
Bases == <<"a.tsv.gz", "b.tsv.gz", "c.tsv.gz">>
\* the directory of Spec holds one file matching the pattern
Directory == {Path(Bases[1])}

\* glob.iglob(options.pattern) with the pattern */*.tsv.gz: "*" matches no
\* leading "."
glob(files) == {f \in files : f.dots = 0}

RECURSIVE sorted_from(_, _)
sorted_from(files, i) ==
    IF i > Len(Bases) THEN <<>>
    ELSE (IF \E f \in files : f.base = Bases[i]
          THEN <<CHOOSE f \in files : f.base = Bases[i]>> ELSE <<>>)
         \o sorted_from(files, i + 1)
\* a mutation of sorted: the paths come in descending order
sorted_descending(files) ==
    LET s == sorted_from(files, 1) IN [i \in 1..Len(s) |-> s[Len(s) + 1 - i]]

\* sorted(...) of a set of undotted paths of one directory
sorted(files) == sorted_from(files, 1)

\* a mutation of dot_rename: the file is copied to the new name and the old
\* name stays
dot_rename_copy(files, path) ==
    files \cup {[path EXCEPT !.dots = @ + 1]}

\* os.path.split(path) and os.rename(path, os.path.join(head, "." + fn))
dot_rename(files, path) ==
    (files \ {path}) \cup {[path EXCEPT !.dots = @ + 1]}

(***************************************************************************)
(* add_appsinstalled_to_batch                                              *)
(***************************************************************************)
\* UserApps: lat and lon are double fields, assigning a str raises TypeError
encode(lat, lon, apps) ==
    IF lat.ty = "float" /\ lon.ty = "float"
    THEN [exc |-> "", packed |-> <<lat.lit, lon.lit, apps>>]
    ELSE [exc |-> "TypeError", packed |-> <<>>]

\* "%s:%s" % (dev_type, dev_id)
key_of(appsinstalled) == <<appsinstalled.dev_type, ":", appsinstalled.dev_id>>

\* a mutation of dict_update: a key already in the batch keeps its value
dict_update_keep_first(batch, key, packed) ==
    [k \in (DOMAIN batch) \cup {key} |-> IF k \in DOMAIN batch THEN batch[k] ELSE packed]

\* dict.update({key: packed})
dict_update(batch, key, packed) ==
    [k \in (DOMAIN batch) \cup {key} |-> IF k = key THEN packed ELSE batch[k]]

\* the collector is the dict dev_type -> batch in insertion order
add_appsinstalled_to_batch(appsinstalled, collector) ==
    LET e == encode(appsinstalled.lat, appsinstalled.lon, appsinstalled.apps)
        key == key_of(appsinstalled)
        dev_type == appsinstalled.dev_type
        at == {i \in 1..Len(collector) : collector[i].dev_type = dev_type}
    IN IF e.exc # "" THEN [exc |-> e.exc, collector |-> collector]
       ELSE IF at # {}
       THEN [exc |-> "",
             collector |-> [collector EXCEPT ![CHOOSE i \in at : TRUE].batch =
                                dict_update(@, key, e.packed)]]
       ELSE [exc |-> "",
             collector |-> Append(collector,
                              [dev_type |-> dev_type, batch |-> (key :> e.packed)])]

\* len(batch)
len(batch) == Cardinality(DOMAIN batch)

(***************************************************************************)
(* Inputs of Spec                                                          *)
(***************************************************************************)
L_valid == <<"idfa", "d1", "55.5", "42.4", "1,42">>
L_same_key == <<"idfa", "d1", "55.5", "42.4", "1">>
L_gaid == <<"gaid", "d2", "55.5", "42.4", "1">>
L_bad_geo == <<"idfa", "d3", "bad", "42.4", "1">>
L_bad_app == <<"idfa", "d4", "55.5", "42.4", "1,x">>
L_short == <<"idfa", "d5", "55.5">>
L_unknown == <<"unkn", "d6", "55.5", "42.4", "1">>
L_adid == <<"adid", "d7", "55.5", "42.4", "1">>
L_long == <<"idfa", "d8", "55.5", "42.4", "1", "more">>
L_blank == <<"">>
StreamLines ==
    {L_valid, L_same_key, L_gaid, L_bad_geo, L_bad_app, L_short, L_unknown, L_adid,
     L_long, L_blank}

\* end-to-end scenario 1: a valid line, a line with an unparseable app id, a
\* line of 3 fields
Scenario1 == <<L_valid, L_bad_app, L_short>>

\* a full batch of two records followed by a record with a non-numeric
\* latitude
LateBadGeo == <<L_valid, L_gaid, L_bad_geo>>

Envs == {"any", "scenario1", "late_bad_geo"}
\* the lines of the environment "live" of SpecFair, one of each kind the
\* threads can tell apart: a Job the worker collects, a Job that ends the
\* worker thread, a line that raises in the parser, a line counted as an
\* error, a blank line
LiveLines == {L_valid, L_bad_geo, L_bad_app, L_short, L_blank}
\* the environments whose file is drawn as the stream is read
drawn(e) == e \in {"any", "live"}
\* the file of an environment that fixes it
fixed_file(e) == IF e = "scenario1" THEN Scenario1 ELSE LateBadGeo
\* the lines a file can have at position i
lines_at(e, i) ==
    IF e = "any" THEN StreamLines
    ELSE IF e = "live" THEN LiveLines ELSE {fixed_file(e)[i]}
\* the lengths a file can have: the file's lines and its end are drawn as the
\* stream is read
lengths(e) == IF drawn(e) THEN 0..MaxLines ELSE {Len(fixed_file(e))}
\* what the cache client can answer
client_outcomes(e) == IF drawn(e) THEN ClientOutcomes ELSE {"ok"}

(***************************************************************************)
(* queue.Queue                                                             *)
(***************************************************************************)
\* Queue(maxsize).full(): with maxsize <= 0 the queue is infinite and never
\* full; put blocks while the queue is full
full(q, maxsize) == maxsize > 0 /\ Len(q) >= maxsize

(***************************************************************************)
(* handle_insert_appsinstalled: one worker thread                          *)
(***************************************************************************)
Workers == 1..THREADS_PER_WORKER

NoWrite == [pc |-> "none", retry_num |-> 1, calls |-> 0, sleeps |-> <<>>,
            ok |-> FALSE, outcomes |-> <<>>, dry_run |-> FALSE, logged |-> FALSE]

\* processed = errors = collected = 0; collector = {}; is_queue_emty = False;
\* taken keeps the ids of the Jobs the thread has dequeued, in order
NewWorker ==
    [pc |-> "get", processed |-> 0, errors |-> 0, collected |-> 0,
     collector |-> <<>>, is_queue_emty |-> FALSE, i |-> 0, wr |-> NoWrite,
     taken |-> <<>>]

\* a mutation of dequeue: get returns the first Job and leaves it on the queue
dequeue_keep(q) == q

\* the queue left by Queue.get, which removes the Job it returns
dequeue(q) == Tail(q)

\* a mutation of must_flush: only a full batch is flushed
must_flush_full_only(collected, is_queue_emty) ==
    collected >= LINES_COUNT_IN_BATCH

\* the test of line 146
must_flush(collected, is_queue_emty) ==
    collected >= LINES_COUNT_IN_BATCH \/ (is_queue_emty /\ collected > 0)

\* a mutation of end_flush: the collector is not cleared
end_flush_uncleared(worker) ==
    [worker EXCEPT !.collected = 0, !.i = 0, !.wr = NoWrite,
                   !.pc = IF worker.is_queue_emty THEN "report" ELSE "get"]

\* lines 155-159 once the for loop is over
end_flush(worker) ==
    [worker EXCEPT !.collected = 0, !.collector = <<>>, !.i = 0, !.wr = NoWrite,
                   !.pc = IF worker.is_queue_emty THEN "report" ELSE "get"]

RECURSIVE flush_from(_, _)
\* the for loop of line 147 from item i up to the next client call: a call of
\* insert_appsinstalled that raises before any client call is counted at once
flush_from(worker, i) ==
    IF i > Len(worker.collector) THEN end_flush(worker)
    ELSE LET wr == insert_start(CLIENTS, worker.collector[i].dev_type, Options.dry)
         IN IF wr.pc = "loop"
            THEN [worker EXCEPT !.pc = "flush", !.i = i, !.wr = wr]
            ELSE flush_from(count_batch(worker, wr, len(worker.collector[i].batch)),
                            i + 1)

\* entering the for loop at its first item
begin_flush(worker) == flush_from(worker, 1)

\* job_queue.get returned a task
WorkerGet(w) ==
    /\ wk[w].pc = "get"
    /\ job_queue # <<>>
    /\ job_queue' = dequeue(job_queue)
    /\ LET job == Head(job_queue)
           r == add_appsinstalled_to_batch(job.task, wk[w].collector)
           has == [wk[w] EXCEPT !.taken = Append(@, job.id)]
           got == [has EXCEPT !.collector = r.collector, !.collected = @ + 1]
       IN wk' = [wk EXCEPT ![w] =
                    IF r.exc # "" THEN [has EXCEPT !.pc = "dead"]
                    ELSE IF must_flush(got.collected, got.is_queue_emty)
                    THEN begin_flush(got) ELSE got]
    /\ UNCHANGED <<parse_vars, write_vars, global_vars, main_vars, hl,
                   result_queue, hist_vars>>

\* a mutation of WorkerTimeout: get has no timeout, a worker on an empty queue
\* keeps waiting
WorkerTimeout_blocking(w) ==
    /\ wk[w].pc = "get"
    /\ job_queue = <<>>
    /\ UNCHANGED vars

\* job_queue.get raised Empty after GET_JOB_TIMEOUT
WorkerTimeout(w) ==
    /\ wk[w].pc = "get"
    /\ job_queue = <<>>
    /\ LET timed == [wk[w] EXCEPT !.is_queue_emty = TRUE] IN
       wk' = [wk EXCEPT ![w] =
                 IF must_flush(timed.collected, timed.is_queue_emty)
                 THEN begin_flush(timed) ELSE [timed EXCEPT !.pc = "report"]]
    /\ early_timeout' = (early_timeout \/ hl.pc \in {"open", "read", "alive"})
    /\ UNCHANGED <<parse_vars, write_vars, global_vars, main_vars, hl, job_queue,
                   result_queue, ended, env>>

\* insert_appsinstalled has returned or raised: lines 150-154 count the
\* batch, then the for loop takes the next item of the collector or ends
after_insert(worker) ==
    flush_from(count_batch(worker, worker.wr, len(worker.collector[worker.i].batch)),
               worker.i + 1)

\* a mutation of WorkerAttempt: a client whose call raised is removed from
\* CLIENTS
WorkerAttempt_drops_client(w) ==
    /\ wk[w].pc = "flush"
    /\ wk[w].wr.pc = "loop"
    /\ \E o \in client_outcomes(env) :
          LET tried == [wk[w] EXCEPT !.wr = insert_attempt(@, o)]
              dev_type == wk[w].collector[wk[w].i].dev_type
          IN /\ wk' = [wk EXCEPT ![w] =
                         IF tried.wr.pc = "loop" THEN tried ELSE after_insert(tried)]
             /\ CLIENTS' = IF o = "raise"
                           THEN [k \in (DOMAIN CLIENTS) \ {dev_type} |-> CLIENTS[k]]
                           ELSE CLIENTS
    /\ UNCHANGED <<parse_vars, write_vars, DEVICE_MEMC, main_vars, hl, job_queue,
                   result_queue, hist_vars>>

\* one memc_client.set_multi(batch) of the write in progress and, when it
\* ends the write, the worker's code up to its next blocking call
WorkerAttempt(w) ==
    /\ wk[w].pc = "flush"
    /\ wk[w].wr.pc = "loop"
    /\ \E o \in client_outcomes(env) :
          LET tried == [wk[w] EXCEPT !.wr = insert_attempt(@, o)] IN
          wk' = [wk EXCEPT ![w] =
                    IF tried.wr.pc = "loop" THEN tried ELSE after_insert(tried)]
    /\ UNCHANGED <<parse_vars, write_vars, global_vars, main_vars, hl, job_queue,
                   result_queue, hist_vars>>


\* result_queue.put((processed, errors)); return
WorkerReport(w) ==
    /\ wk[w].pc = "report"
    /\ ~full(result_queue, MAX_RESULT_QUEUE_SIZE)
    /\ result_queue' = Append(result_queue, <<wk[w].processed, wk[w].errors>>)
    /\ wk' = [wk EXCEPT ![w].pc = "done"]
    /\ UNCHANGED <<parse_vars, write_vars, global_vars, main_vars, hl, job_queue,
                   hist_vars>>

\* threading.Thread.is_alive()
is_alive(w) == wk[w].pc \notin {"done", "dead"}

(***************************************************************************)
(* handle_logfile, run by the pool process for one file after another      *)
(***************************************************************************)
EmptyDict == [k \in {} |-> ""]
NoPath == [head |-> "", dots |-> 0, base |-> ""]
IdleWorker == [NewWorker EXCEPT !.pc = "none"]

IdleFile ==
    [pc |-> "idle", task |-> 0, fn |-> NoPath, pos |-> 0, processed |-> 0,
     errors |-> 0, put |-> 0, stopped |-> FALSE, verdict |-> "none",
     last |-> <<>>]

\* whether gzip.open succeeds, and whether the stream ends well or raises
\* after its last line
open_oks(e) == IF drawn(e) THEN BOOLEAN ELSE {TRUE}
read_oks(e) == IF drawn(e) THEN BOOLEAN ELSE {TRUE}

RECURSIVE sum_results(_, _)
\* the sum of component c of the tuples of the result queue
sum_results(q, c) == IF q = <<>> THEN 0 ELSE Head(q)[c] + sum_results(Tail(q), c)

\* a mutation of unroutable: only a device type absent from the map is refused
unroutable_absent_only(memc_addr) == memc_addr = PyNone

\* if not memc_addr: the device type is absent from DEVICE_MEMC or its address
\* is empty
unroutable(memc_addr) == ~truthy(memc_addr)

\* float(errors / processed), kept in millionths: the quotient is cut, which
\* leaves every comparison with a whole number of millionths as it is
err_rate(errors, processed) == (errors * 1000000) \div processed

\* a mutation of verdict_of: a rate equal to the threshold is accepted
verdict_of_inclusive(processed, errors) ==
    IF processed = 0 THEN "none"
    ELSE IF err_rate(errors, processed) <= NORMAL_ERR_RATE THEN "accept" ELSE "fail"

\* lines 251-258: the logged verdict; no rate is computed when processed is 0
verdict_of(processed, errors) ==
    IF processed = 0 THEN "none"
    ELSE IF err_rate(errors, processed) < NORMAL_ERR_RATE THEN "accept" ELSE "fail"

\* a mutation of Return: a fail verdict raises instead of returning fn
Return_unless_failed(file, how) ==
    /\ hl' = [file EXCEPT !.pc = "returned"]
    /\ returned' = IF file.verdict = "fail" THEN returned
                   ELSE [returned EXCEPT ![file.task] = file.fn]
    /\ ended' = [ended EXCEPT ![file.task] = how]

\* return fn: the value is the result of the file's task, which the pool
\* hands to the imap loop of main
Return(file, how) ==
    /\ hl' = [file EXCEPT !.pc = "returned"]
    /\ returned' = [returned EXCEPT ![file.task] = file.fn]
    /\ ended' = [ended EXCEPT ![file.task] = how]

\* a mutation of HandleLogfile: the result queue is kept from one file to the
\* next instead of being created
HandleLogfile_stale_results ==
    /\ main_pc = "imap"
    /\ hl.pc \in {"idle", "returned"}
    /\ hl.task < Len(fnames)
    /\ hl' = [IdleFile EXCEPT !.pc = "open", !.task = hl.task + 1,
                              !.fn = fnames[hl.task + 1]]
    /\ job_queue' = <<>>
    /\ wk' = [w \in Workers |-> NewWorker]
    /\ early_timeout' = FALSE
    /\ ended' = [ended EXCEPT ![hl.task + 1] = "running"]
    /\ UNCHANGED <<parse_vars, write_vars, global_vars, main_vars, result_queue,
                   env>>

\* lines 198-214: the queues, the started threads, the counters
HandleLogfile ==
    /\ main_pc = "imap"
    /\ hl.pc \in {"idle", "returned"}
    /\ hl.task < Len(fnames)
    /\ hl' = [IdleFile EXCEPT !.pc = "open", !.task = hl.task + 1,
                              !.fn = fnames[hl.task + 1]]
    /\ job_queue' = <<>>
    /\ result_queue' = <<>>
    /\ wk' = [w \in Workers |-> NewWorker]
    /\ early_timeout' = FALSE
    /\ ended' = [ended EXCEPT ![hl.task + 1] = "running"]
    /\ UNCHANGED <<parse_vars, write_vars, global_vars, main_vars, env>>

\* gzip.open(fn, "rt")
Open ==
    /\ hl.pc = "open"
    /\ \E open_ok \in open_oks(env) :
          IF open_ok
          THEN /\ hl' = [hl EXCEPT !.pc = "read"]
               /\ UNCHANGED <<returned, ended>>
          ELSE Return(hl, "open_failed")
    /\ UNCHANGED <<parse_vars, write_vars, global_vars, main_pc, fs, fnames,
                   renamed, job_queue, result_queue, wk, early_timeout, env>>

\* one iteration of the for loop up to continue or job_queue.put; hl.last
\* keeps the line just read until the next step of handle_logfile, and for
\* good when the line made handle_logfile return
ReadLine ==
    /\ hl.pc = "read"
    /\ \E n \in lengths(env) : hl.pos < n
    /\ \E raw \in lines_at(env, hl.pos + 1) :
          LET line == strip_split(raw)
              at == [hl EXCEPT !.pos = @ + 1, !.last = raw]
              parsed == parse_appsinstalled(line)
              memc_addr == dict_get(DEVICE_MEMC, parsed.rec.dev_type)
          IN IF line = <<"">>
             THEN /\ hl' = at
                  /\ UNCHANGED <<job_queue, returned, ended>>
             ELSE IF parsed.kind = "raise"
             THEN /\ Return(at, "parse_raised")
                  /\ UNCHANGED job_queue
             ELSE IF parsed.kind = "none" \/ unroutable(memc_addr)
             THEN /\ hl' = [at EXCEPT !.errors = @ + 1]
                  /\ UNCHANGED <<job_queue, returned, ended>>
             ELSE /\ ~full(job_queue, MAX_JOB_QUEUE_SIZE)
                  /\ job_queue' = Append(job_queue,
                                         [task |-> parsed.rec, id |-> at.put + 1])
                  /\ hl' = [at EXCEPT !.pc = "alive", !.put = @ + 1]
                  /\ UNCHANGED <<returned, ended>>
    /\ UNCHANGED <<parse_vars, write_vars, global_vars, main_pc, fs, fnames,
                   renamed, result_queue, wk, early_timeout, env>>

\* the stream is at its end: the for loop ends, or the read raises
ReadEnd ==
    /\ hl.pc = "read"
    /\ hl.pos \in lengths(env)
    /\ \E read_ok \in read_oks(env) :
          IF read_ok
          THEN /\ hl' = [hl EXCEPT !.pc = "join", !.last = <<>>]
               /\ UNCHANGED <<returned, ended>>
          ELSE Return([hl EXCEPT !.last = <<>>], "read_failed")
    /\ UNCHANGED <<parse_vars, write_vars, global_vars, main_pc, fs, fnames,
                   renamed, job_queue, result_queue, wk, early_timeout, env>>

\* if not all(thread.is_alive() for thread in workers): break
CheckAlive ==
    /\ hl.pc = "alive"
    /\ hl' = IF \A w \in Workers : is_alive(w)
             THEN [hl EXCEPT !.pc = "read", !.last = <<>>]
             ELSE [hl EXCEPT !.pc = "join", !.stopped = TRUE, !.last = <<>>]
    /\ UNCHANGED <<parse_vars, write_vars, global_vars, main_vars, job_queue,
                   result_queue, wk, hist_vars>>

\* lines 242-260: every thread joined, the result queue drained and summed,
\* the verdict logged, fn returned
Join ==
    /\ hl.pc = "join"
    /\ \A w \in Workers : ~is_alive(w)
    /\ LET processed == hl.processed + sum_results(result_queue, 1)
           errors == hl.errors + sum_results(result_queue, 2)
       IN Return([hl EXCEPT !.processed = processed, !.errors = errors,
                            !.verdict = verdict_of(processed, errors)],
                 IF hl.stopped THEN "stopped_early" ELSE "drained")
    /\ result_queue' = <<>>
    /\ UNCHANGED <<parse_vars, write_vars, global_vars, main_pc, fs, fnames,
                   renamed, job_queue, wk, early_timeout, env>>

(***************************************************************************)
(* main                                                                    *)
(***************************************************************************)
\* create_memc_clients(options), the pool, the sorted glob
MainStart ==
    /\ main_pc = "start"
    /\ DEVICE_MEMC' = device_memc_of(Options)
    /\ CLIENTS' = clients_of(CLIENTS, device_memc_of(Options))
    /\ fnames' = sorted(glob(fs))
    /\ returned' = [i \in 1..Len(fnames') |-> NoPath]
    /\ main_pc' = "imap"
    /\ UNCHANGED <<parse_vars, write_vars, fs, renamed, file_vars, hist_vars>>

\* for fn in pool.imap(handler, fnames): dot_rename(fn); imap yields the
\* results in the order of fnames, each once its task has returned
Rename ==
    /\ main_pc = "imap"
    /\ renamed < Len(fnames)
    /\ returned[renamed + 1] # NoPath
    /\ fs' = dot_rename(fs, returned[renamed + 1])
    /\ renamed' = renamed + 1
    /\ UNCHANGED <<parse_vars, write_vars, global_vars, main_pc, fnames, returned,
                   file_vars, hist_vars>>

\* the imap loop is over
MainDone ==
    /\ main_pc = "imap"
    /\ renamed = Len(fnames)
    /\ main_pc' = "done"
    /\ UNCHANGED <<parse_vars, write_vars, global_vars, fs, fnames, returned,
                   renamed, file_vars, hist_vars>>

(***************************************************************************)
(* Spec: the loader                                                        *)
(***************************************************************************)
ParseIdle == p_pc = "idle" /\ p_line = <<>> /\ p_res = ReturnedNone

NoRetry == [pc |-> "none", attempt |-> 0, calls |-> 0, sleeps |-> <<>>,
            ret |-> "None", outcomes |-> <<>>]
WriteIdle ==
    /\ h_kind = "none" /\ h_pc = "idle" /\ h_script = <<>>
    /\ h_wr = NoWrite /\ h_rt = NoRetry
    /\ h_cnt = [processed |-> 0, errors |-> 0] /\ h_nkeys = 0

LoaderIdle ==
    /\ main_pc = "idle" /\ fs = {} /\ fnames = <<>> /\ returned = <<>>
    /\ renamed = 0
    /\ hl = IdleFile /\ job_queue = <<>> /\ result_queue = <<>>
    /\ wk = [w \in Workers |-> IdleWorker]
    /\ ended = [i \in 1..Len(Bases) |-> "none"]
    /\ early_timeout = FALSE /\ env = "any"

Init ==
    /\ ParseIdle /\ WriteIdle
    /\ DEVICE_MEMC = EmptyDict /\ CLIENTS = EmptyDict
    /\ main_pc = "start" /\ fs = Directory /\ fnames = <<>> /\ returned = <<>>
    /\ renamed = 0
    /\ hl = IdleFile /\ job_queue = <<>> /\ result_queue = <<>>
    /\ wk = [w \in Workers |-> IdleWorker]
    /\ ended = [i \in 1..Len(Bases) |-> "none"]
    /\ early_timeout = FALSE
    /\ env \in Envs

Next ==
    \/ MainStart
    \/ HandleLogfile
    \/ Open
    \/ ReadLine
    \/ ReadEnd
    \/ CheckAlive
    \/ Join
    \/ Rename
    \/ MainDone
    \/ \E w \in Workers : WorkerGet(w)
    \/ \E w \in Workers : WorkerTimeout(w)
    \/ \E w \in Workers : WorkerAttempt(w)
    \/ \E w \in Workers : WorkerReport(w)

Spec == Init /\ [][Next]_vars

\* Every thread of control is scheduled again and again and each of its
\* blocking calls ends: main and the pool process running handle_logfile
\* (gzip reads, put on an unbounded queue, join of threads that end), and each
\* worker thread, whose get ends with a Job or with Empty after
\* GET_JOB_TIMEOUT, whose client call returns or raises, and whose put on the
\* unbounded result queue does not wait.
Fairness ==
    /\ WF_vars(MainStart \/ Rename \/ MainDone)
    /\ WF_vars(HandleLogfile \/ Open \/ ReadLine \/ ReadEnd \/ CheckAlive \/ Join)
    /\ \A w \in Workers :
          WF_vars(WorkerGet(w) \/ WorkerTimeout(w) \/ WorkerAttempt(w)
                  \/ WorkerReport(w))

\* the loader on a file of at most MaxLines lines drawn from LiveLines
InitFair ==
    /\ ParseIdle /\ WriteIdle
    /\ DEVICE_MEMC = EmptyDict /\ CLIENTS = EmptyDict
    /\ main_pc = "start" /\ fs = Directory /\ fnames = <<>> /\ returned = <<>>
    /\ renamed = 0
    /\ hl = IdleFile /\ job_queue = <<>> /\ result_queue = <<>>
    /\ wk = [w \in Workers |-> IdleWorker]
    /\ ended = [i \in 1..Len(Bases) |-> "none"]
    /\ early_timeout = FALSE
    /\ env = "live"

\* the loader under the scheduling above
SpecFair == InitFair /\ [][Next]_vars /\ Fairness

(***************************************************************************)
(* SpecParse: parse_appsinstalled on every line of ParseLines              *)
(***************************************************************************)
InitParse ==
    /\ p_pc = "input" /\ p_line \in ParseLines /\ p_res = ReturnedNone
    /\ WriteIdle /\ LoaderIdle
    /\ DEVICE_MEMC = EmptyDict /\ CLIENTS = EmptyDict

ParseCall ==
    /\ p_pc = "input"
    /\ p_res' = parse_appsinstalled(p_line)
    /\ p_pc' = "parsed"
    /\ UNCHANGED <<p_line, write_vars, global_vars, main_vars, file_vars, hist_vars>>

NextParse == ParseCall

SpecParse == InitParse /\ [][NextParse]_vars

(***************************************************************************)
(* SpecWrite: one write.  "memc": a worker's try / except / else around    *)
(* insert_appsinstalled for a batch of h_nkeys keys, with and without      *)
(* dry_run; "store": one call of Storage.cache_set; "get": one call of     *)
(* Storage.get.  Call k of the client gets the outcome h_script[k].        *)
(***************************************************************************)
InitWrite ==
    /\ ParseIdle /\ LoaderIdle
    /\ DEVICE_MEMC = device_memc_of(Options)
    /\ CLIENTS = clients_of(EmptyDict, device_memc_of(Options))
    /\ h_kind \in {"memc", "store", "get"}
    /\ h_pc = "call"
    /\ h_script \in [1..MaxScript ->
                        IF h_kind = "memc" THEN ClientOutcomes ELSE FuncOutcomes]
    /\ \E dry \in BOOLEAN :
          h_wr = IF h_kind = "memc" THEN insert_start(CLIENTS, "idfa", dry)
                 ELSE NoWrite
    /\ h_rt = IF h_kind = "store" THEN retry_start(MAX_RETRIES)
              ELSE IF h_kind = "get" THEN [NoRetry EXCEPT !.pc = "loop"]
              ELSE NoRetry
    /\ h_cnt = [processed |-> 0, errors |-> 0]
    /\ h_nkeys \in IF h_kind = "memc" THEN 1..MaxKeys ELSE {0}

\* one memc_client.set_multi(batch)
MemcAttempt ==
    /\ h_kind = "memc" /\ h_pc = "call" /\ h_wr.pc = "loop"
    /\ h_wr.calls < MaxScript
    /\ h_wr' = insert_attempt(h_wr, h_script[h_wr.calls + 1])
    /\ UNCHANGED <<parse_vars, h_kind, h_pc, h_script, h_rt, h_cnt, h_nkeys,
                   global_vars, main_vars, file_vars, hist_vars>>

\* the worker counts the batch
MemcCount ==
    /\ h_kind = "memc" /\ h_pc = "call" /\ h_wr.pc \in {"returned", "raised"}
    /\ h_cnt' = count_batch(h_cnt, h_wr, h_nkeys)
    /\ h_pc' = "counted"
    /\ UNCHANGED <<parse_vars, h_kind, h_script, h_wr, h_rt, h_nkeys,
                   global_vars, main_vars, file_vars, hist_vars>>

\* one func(*args, **kwargs) inside the wrapper
StoreAttempt ==
    /\ h_kind = "store" /\ h_pc = "call" /\ h_rt.pc = "loop"
    /\ h_rt.calls < MaxScript
    /\ h_rt' = retry_attempt(h_rt, h_script[h_rt.calls + 1], MAX_RETRIES,
                             BACKOFF_FACTOR)
    /\ UNCHANGED <<parse_vars, h_kind, h_pc, h_script, h_wr, h_cnt, h_nkeys,
                   global_vars, main_vars, file_vars, hist_vars>>

\* the one self.storage.get(key) of Storage.get
StorageGet ==
    /\ h_kind = "get" /\ h_pc = "call" /\ h_rt.pc = "loop"
    /\ h_rt' = get(h_rt, h_script[h_rt.calls + 1])
    /\ UNCHANGED <<parse_vars, h_kind, h_pc, h_script, h_wr, h_cnt, h_nkeys,
                   global_vars, main_vars, file_vars, hist_vars>>

\* the wrapper, or Storage.get, has returned to or raised into its caller
StoreReturn ==
    /\ h_kind \in {"store", "get"} /\ h_pc = "call" /\ h_rt.pc \in {"returned", "raised"}
    /\ h_pc' = "done"
    /\ UNCHANGED <<parse_vars, h_kind, h_script, h_wr, h_rt, h_cnt, h_nkeys,
                   global_vars, main_vars, file_vars, hist_vars>>

NextWrite ==
    MemcAttempt \/ MemcCount \/ StoreAttempt \/ StorageGet \/ StoreReturn

SpecWrite == InitWrite /\ [][NextWrite]_vars

\* SpecFiles: the loader on a directory of two files, each of at most MaxLines
\* lines drawn from LiveLines, handled one after the other by one process of
\* the pool
InitFiles ==
    /\ ParseIdle /\ WriteIdle
    /\ DEVICE_MEMC = EmptyDict /\ CLIENTS = EmptyDict
    /\ main_pc = "start" /\ fs = {Path(Bases[1]), Path(Bases[2])}
    /\ fnames = <<>> /\ returned = <<>> /\ renamed = 0
    /\ hl = IdleFile /\ job_queue = <<>> /\ result_queue = <<>>
    /\ wk = [w \in Workers |-> IdleWorker]
    /\ ended = [i \in 1..Len(Bases) |-> "none"]
    /\ early_timeout = FALSE
    /\ env = "live"

SpecFiles == InitFiles /\ [][Next]_vars

(***************************************************************************)
(* SpecReport: handle_logfile from the end of streaming on, for a file     *)
(* whose workers have all reported, and main's rename of the file.  The    *)
(* first worker reports counters drawn from 0..MaxProcessed and            *)
(* 0..MaxErrors, the others report (0, 0).                                 *)
(***************************************************************************)
ReportedWorker(processed, errors) ==
    [NewWorker EXCEPT !.pc = "done", !.is_queue_emty = TRUE,
                      !.processed = processed, !.errors = errors]

InitReport ==
    /\ ParseIdle /\ WriteIdle
    /\ DEVICE_MEMC = device_memc_of(Options)
    /\ CLIENTS = clients_of(EmptyDict, device_memc_of(Options))
    /\ main_pc = "imap" /\ fs = Directory /\ fnames = sorted(glob(Directory))
    /\ returned = [i \in 1..Len(fnames) |-> NoPath] /\ renamed = 0
    /\ job_queue = <<>>
    /\ \E processed \in 0..MaxProcessed, errors \in 0..MaxErrors, unparsed \in 0..1 :
          /\ wk = [w \in Workers |->
                     IF w = 1 THEN ReportedWorker(processed, errors)
                     ELSE ReportedWorker(0, 0)]
          /\ hl = [IdleFile EXCEPT !.pc = "join", !.task = 1, !.fn = fnames[1],
                                   !.pos = processed + errors + unparsed,
                                   !.put = processed + errors,
                                   !.errors = unparsed]
    /\ result_queue = [w \in Workers |-> <<wk[w].processed, wk[w].errors>>]
    /\ ended = [i \in 1..Len(Bases) |-> IF i = 1 THEN "running" ELSE "none"]
    /\ early_timeout = FALSE /\ env = "any"

NextReport == Join \/ Rename \/ MainDone

SpecReport == InitReport /\ [][NextReport]_vars

(***************************************************************************)
(* SpecPool: main and its pool over a directory of up to three matching    *)
(* files and their "." names.  The pool's processes run handle_logfile for *)
(* several files at once; a call is kept to its start and its return, and  *)
(* hl.task counts the tasks the pool has handed to a process.              *)
(***************************************************************************)
PoolPaths ==
    {[Path(Bases[i]) EXCEPT !.dots = d] : i \in 1..Len(Bases), d \in {0, 1}}

InitPool ==
    /\ ParseIdle /\ WriteIdle
    /\ DEVICE_MEMC = EmptyDict /\ CLIENTS = EmptyDict
    /\ main_pc = "start" /\ fs \in SUBSET PoolPaths /\ fnames = <<>>
    /\ returned = <<>> /\ renamed = 0
    /\ hl = IdleFile /\ job_queue = <<>> /\ result_queue = <<>>
    /\ wk = [w \in Workers |-> IdleWorker]
    /\ ended = [i \in 1..Len(Bases) |-> "none"]
    /\ early_timeout = FALSE /\ env = "any"

\* pool.imap: a free process of the pool takes the next task, in the order of
\* fnames, and calls handle_logfile
TaskStart ==
    /\ main_pc = "imap"
    /\ hl.task < Len(fnames)
    /\ Cardinality({i \in 1..Len(fnames) : ended[i] = "running"}) < NumProcesses
    /\ hl' = [hl EXCEPT !.task = @ + 1]
    /\ ended' = [ended EXCEPT ![hl.task + 1] = "running"]
    /\ UNCHANGED <<parse_vars, write_vars, global_vars, main_vars, job_queue,
                   result_queue, wk, early_timeout, env>>

\* handle_logfile returns fn, on any of its paths
TaskReturn(i) ==
    /\ ended[i] = "running"
    /\ \E how \in {"open_failed", "read_failed", "parse_raised", "stopped_early",
                    "drained"} :
          ended' = [ended EXCEPT ![i] = how]
    /\ returned' = [returned EXCEPT ![i] = fnames[i]]
    /\ UNCHANGED <<parse_vars, write_vars, global_vars, main_pc, fs, fnames,
                   renamed, file_vars, early_timeout, env>>

NextPool ==
    \/ MainStart
    \/ TaskStart
    \/ \E i \in 1..Len(Bases) : TaskReturn(i)
    \/ Rename
    \/ MainDone

SpecPool == InitPool /\ [][NextPool]_vars

(***************************************************************************)
(* Properties                                                              *)
(***************************************************************************)
RECURSIVE sum_workers(_)
\* processed + errors summed over the workers of the set ws
sum_workers(ws) ==
    IF ws = {} THEN 0
    ELSE LET w == CHOOSE x \in ws : TRUE
         IN wk[w].processed + wk[w].errors + sum_workers(ws \ {w})

\* C1: when the producer had enqueued all K Jobs before any worker timed out
\* and every worker has returned, the workers' processed and errors counters
\* add up to K, whatever the Jobs are (Jobs of the same key included).
C1_CountersAddUpToJobs ==
    (/\ hl.pc = "join"
     /\ ~early_timeout
     /\ \A w \in Workers : wk[w].pc = "done")
    => sum_workers(Workers) = hl.put

\* C2: one write calls the client at most MAX_RETRIES times, for
\* insert_appsinstalled and for a function wrapped by store.retry alike.
C2_AtMostMaxRetriesCalls ==
    /\ h_wr.calls <= MEMC_MAX_RETRIES
    /\ h_rt.calls <= MAX_RETRIES

\* C2 witness: insert_appsinstalled has given up after nothing but failures.
C2_GaveUp ==
    /\ h_kind = "memc" /\ h_wr.pc = "returned" /\ ~h_wr.ok
    /\ h_wr.calls >= 2
    /\ \A k \in 1..h_wr.calls : h_wr.outcomes[k] = "falsy"

\* C3: when the cache client never succeeds, the write is counted as failed:
\* insert_appsinstalled raises into its caller, which adds the batch's keys to
\* errors and nothing to processed.
C3_FailedWriteCountsAsErrors ==
    (/\ h_kind = "memc" /\ h_pc = "counted"
     /\ \A k \in 1..MaxScript : h_script[k] # "ok")
    => /\ h_wr.pc = "raised"
       /\ h_cnt.errors = h_nkeys
       /\ h_cnt.processed = 0

\* C4: when the client fails the first two attempts and would succeed on the
\* third, the third attempt is made and succeeds, the batch is counted as
\* processed and exactly 2 backoff sleeps have occurred.
C4_ThirdAttemptSucceeds ==
    (/\ h_kind = "memc" /\ h_pc = "counted"
     /\ h_script[1] # "ok" /\ h_script[2] # "ok" /\ h_script[3] = "ok")
    => /\ h_wr.calls = 3
       /\ h_wr.ok
       /\ h_cnt.processed = h_nkeys /\ h_cnt.errors = 0
       /\ Len(h_wr.sleeps) = 2

\* C5: every attempt of insert_appsinstalled that is followed by another
\* attempt ended in a raised (transport) error: a logical rejection is never
\* retried.
C5_RetriesOnlyTransportErrors ==
    h_kind = "memc" =>
        \A k \in 1..(Len(h_wr.outcomes) - 1) : h_wr.outcomes[k] = "raise"

\* C6: for the file of scenario 1 and a client that always succeeds, the
\* totals handle_logfile returns with are processed = 2 and errors = 1.
C6_Scenario1Totals ==
    (env = "scenario1" /\ hl.pc = "returned")
    => (hl.processed = 2 /\ hl.errors = 1)

RECURSIVE int_tokens(_)
\* the integer tokens of a comma-split field, as integers, in input order
int_tokens(tokens) ==
    IF tokens = <<>> THEN <<>>
    ELSE (IF strip_token(Head(tokens)) \in IntLiterals
          THEN <<int_of(strip_token(Head(tokens)))>> ELSE <<>>)
         \o int_tokens(Tail(tokens))

\* a line of exactly 5 fields with device type, device id and apps field
WellFormed(line) ==
    Len(line) = 5 /\ line[1] # "" /\ line[2] # "" /\ line[5] # ""

\* C7: for every well-formed line the parser returns a Record with the
\* line's device type and id and with the integer tokens of the apps field in
\* input order; a non-integer token does not make it fail or raise.
C7_WellFormedLineParses ==
    (p_pc = "parsed" /\ WellFormed(p_line))
    => /\ p_res.kind = "record"
       /\ p_res.rec.dev_type = p_line[1]
       /\ p_res.rec.dev_id = p_line[2]
       /\ p_res.rec.apps = int_tokens(split_comma(p_line[5]))

\* C8: a line of fewer than 5 fields, or of 5 fields with an empty device
\* type or device id, makes the parser return no Record and not raise.
C8_MalformedLineGivesNone ==
    (/\ p_pc = "parsed"
     /\ \/ Len(p_line) < 5
        \/ (Len(p_line) = 5 /\ (p_line[1] = "" \/ p_line[2] = "")))
    => p_res.kind = "none"

\* C8 witness: a line of 4 fields has been parsed to None.
C8_ShortLineParsed ==
    /\ p_pc = "parsed" /\ Len(p_line) = 4 /\ p_line[1] # "" /\ p_line[2] # ""
    /\ p_res.kind = "none"

\* the name dot_rename gives a path
dotted(path) == [path EXCEPT !.dots = @ + 1]

\* C9: when main is done, a file whose open or read failed still has its
\* original name, and a file that was ingested has the "." name.
C9_FailedFileKeepsName ==
    main_pc = "done" =>
        \A i \in 1..Len(fnames) :
            /\ ended[i] \in {"open_failed", "read_failed"} => fnames[i] \in fs
            /\ ended[i] = "drained" => dotted(fnames[i]) \in fs

\* C10: a file has been renamed only if its pipeline streamed the input to
\* its end, joined every worker and summed the results.
C10_RenamedOnlyAfterDrain ==
    \A i \in 1..Len(fnames) :
        dotted(fnames[i]) \in fs => ended[i] = "drained"

\* C11: handle_logfile leaves the streaming loop before the end of input only
\* when every worker thread has terminated: the break of line 237 is taken
\* with no worker alive.
C11_StopsOnlyWithoutWorkers ==
    [][(hl.pc = "alive" /\ hl'.pc = "join") => \A w \in Workers : ~is_alive(w)]_vars

\* the line parses to a record whose device type has no address in DEVICE_MEMC
Unroutable(raw) ==
    LET parsed == parse_appsinstalled(strip_split(raw)) IN
    /\ parsed.kind = "record"
    /\ ~truthy(dict_get(DEVICE_MEMC, parsed.rec.dev_type))

\* C12: a record whose device type has no address in DEVICE_MEMC (absent or
\* empty) is not put on the job queue and adds exactly 1 to the file-level
\* error count; every Job on the queue or in a worker's collector has a
\* device type with an address and a cache client.
C12_UnroutableNeverEnqueued ==
    /\ [](/\ \A i \in 1..Len(job_queue) :
              /\ truthy(dict_get(DEVICE_MEMC, job_queue[i].task.dev_type))
              /\ job_queue[i].task.dev_type \in DOMAIN CLIENTS
          /\ \A w \in Workers : \A i \in 1..Len(wk[w].collector) :
              wk[w].collector[i].dev_type \in DOMAIN CLIENTS)
    /\ [][(hl'.pos = hl.pos + 1 /\ Unroutable(hl'.last))
          => (/\ hl'.errors = hl.errors + 1
              /\ hl'.put = hl.put
              /\ job_queue' = job_queue
              /\ hl'.pc = "read")]_vars

\* C12 witness: a worker holds the Job of the first line, and the second line,
\* of a device type given with an empty address, was counted and not enqueued.
C12_AdidLineCounted ==
    /\ hl.pc = "read" /\ hl.pos = 2 /\ hl.last = L_adid
    /\ hl.errors = 1 /\ hl.put = 1 /\ job_queue = <<>>
    /\ \E w \in Workers : wk[w].collector # <<>>

RECURSIVE sum_processed(_)
\* the processed counters of the workers of the set ws, summed
sum_processed(ws) ==
    IF ws = {} THEN 0
    ELSE LET w == CHOOSE x \in ws : TRUE
         IN wk[w].processed + sum_processed(ws \ {w})

RECURSIVE sum_errors(_)
\* the errors counters of the workers of the set ws, summed
sum_errors(ws) ==
    IF ws = {} THEN 0
    ELSE LET w == CHOOSE x \in ws : TRUE
         IN wk[w].errors + sum_errors(ws \ {w})

\* C13: handle_logfile takes the results only when every worker thread has
\* terminated, and its totals are then processed = the sum of all workers'
\* processed counters and errors = the sum of all workers' errors counters
\* plus the file-level error count of the streaming loop.
C13_TotalsSumAllWorkers ==
    [][(hl.pc = "join" /\ hl'.pc = "returned")
       => (/\ \A w \in Workers : ~is_alive(w)
           /\ hl'.processed = sum_processed(Workers)
           /\ hl'.errors = hl.errors + sum_errors(Workers))]_vars

\* C14: when the total processed is above 0, the accept verdict is logged
\* exactly when 100 * errors < processed and the fail verdict otherwise; when
\* processed is 0 no rate is computed and no verdict is logged, whatever the
\* error count.
C14_VerdictByThreshold ==
    (hl.pc = "returned" /\ ended[hl.task] \in {"drained", "stopped_early"})
    => /\ hl.processed > 0 /\ 100 * hl.errors < hl.processed
            => hl.verdict = "accept"
       /\ hl.processed > 0 /\ 100 * hl.errors >= hl.processed
            => hl.verdict = "fail"
       /\ hl.processed = 0 => hl.verdict = "none"

\* C14 witness: a file with exactly 1 error per 100 processed records got the
\* fail verdict.
C14_AtThresholdFails ==
    /\ hl.pc = "returned" /\ hl.processed = 100 /\ hl.errors = 1
    /\ hl.verdict = "fail"

\* C15: the verdict is advisory: with the accept and with the fail verdict
\* alike, handle_logfile has returned the file's name (it did not raise), main
\* renames that file before it is done, and the rename gives the "." name.
C15_VerdictIsAdvisory ==
    (hl.pc = "returned" /\ hl.verdict \in {"accept", "fail"})
    => /\ returned[hl.task] = hl.fn
       /\ renamed >= hl.task => (dotted(hl.fn) \in fs /\ hl.fn \notin fs)
       /\ main_pc = "done" => renamed >= hl.task

\* C15 witness: main is done and a file with the fail verdict has the "." name.
C15_FailedLoadRenamed ==
    /\ main_pc = "done" /\ hl.pc = "returned" /\ hl.verdict = "fail"
    /\ dotted(hl.fn) \in fs /\ hl.fn \notin fs

\* C16: the job queue is bounded by the configured MAX_JOB_QUEUE_SIZE: the
\* number of Jobs waiting in it never exceeds that maximum (put blocks while
\* the queue is full).
C16_JobQueueBounded == Len(job_queue) <= MAX_JOB_QUEUE_SIZE

\* C17: every Job put on the job queue is dequeued at most once, by at most
\* one worker: no two dequeues, of one worker or of two, returned the same
\* Job, and a dequeued Job is no longer on the queue.
C17_JobDequeuedOnce ==
    \A v \in Workers : \A i \in 1..Len(wk[v].taken) :
        /\ \A w \in Workers : \A j \in 1..Len(wk[w].taken) :
              (v # w \/ i # j) => wk[v].taken[i] # wk[w].taken[j]
        /\ \A k \in 1..Len(job_queue) : wk[v].taken[i] # job_queue[k].id

\* C17 witness: two Jobs were put and each worker of two has dequeued one.
C17_TwoWorkersOneJobEach ==
    /\ hl.put = 2 /\ job_queue = <<>>
    /\ \E v \in Workers, w \in Workers :
          v # w /\ Len(wk[v].taken) = 1 /\ Len(wk[w].taken) = 1

\* handle_logfile has taken the tuples from the result queue
Drained ==
    hl.pc = "returned" /\ ended[hl.task] \in {"drained", "stopped_early"}

\* C18: a worker whose dequeue timed out has, when it puts its tuple and when
\* it has terminated, no unflushed record left: its collector is empty and
\* the records it dequeued went through a write that was counted; every
\* worker that has returned has put its (processed, errors) tuple on the
\* result queue, one tuple per worker.
C18_FlushBeforeReport ==
    /\ \A w \in Workers :
          wk[w].pc \in {"report", "done"}
          => /\ wk[w].is_queue_emty
             /\ wk[w].collector = <<>> /\ wk[w].collected = 0
             /\ wk[w].taken # <<>> => wk[w].processed + wk[w].errors > 0
    /\ ~Drained =>
          /\ Len(result_queue) = Cardinality({w \in Workers : wk[w].pc = "done"})
          /\ \A w \in Workers :
                wk[w].pc = "done"
                => \E k \in 1..Len(result_queue) :
                      result_queue[k] = <<wk[w].processed, wk[w].errors>>

\* C18 witness: a worker that held one record, less than a batch, when its
\* dequeue timed out has written it, reported the tuple and terminated.
C18_PartialBatchFlushed ==
    \E w \in Workers :
        /\ wk[w].pc = "done" /\ wk[w].taken = <<1>>
        /\ wk[w].processed + wk[w].errors = 1
        /\ \E k \in 1..Len(result_queue) :
              result_queue[k] = <<wk[w].processed, wk[w].errors>>

\* C19: with dry_run set, insert_appsinstalled logs the intended write and
\* makes no call of the cache client's set_multi.
C19_DryRunMakesNoCall ==
    (h_kind = "memc" /\ h_wr.dry_run) => (h_wr.logged /\ h_wr.calls = 0)

\* the place of a path's base name in the lexicographic order
rank(path) == CHOOSE i \in 1..Len(Bases) : Bases[i] = path.base

\* C20: fnames is in lexicographic order, the pool is handed the files in
\* that order and main renames them in that order: the renamed files are the
\* first ones of fnames, each renamed once, to its "." name, after
\* handle_logfile has returned for it and for every file before it.
C20_RenamedInSortedOrder ==
    /\ \A i \in 1..Len(fnames), j \in 1..Len(fnames) :
          i < j => rank(fnames[i]) < rank(fnames[j])
    /\ \A i \in 1..Len(fnames) : ended[i] # "none" <=> i <= hl.task
    /\ renamed <= Len(fnames)
    /\ \A i \in 1..Len(fnames) :
          /\ i <= renamed <=> fnames[i] \notin fs
          /\ i <= renamed => [fnames[i] EXCEPT !.dots = 1] \in fs
          /\ i <= renamed => \A j \in 1..i : returned[j] = fnames[j]

\* C20 witness: of three files the first is renamed, the third has returned
\* while the second is still being handled, and the third is not renamed.
C20_ThirdWaitsForSecond ==
    /\ Len(fnames) = 3 /\ renamed = 1
    /\ ended[2] = "running" /\ returned[3] = fnames[3]
    /\ fnames[1] \notin fs /\ fnames[3] \in fs

\* a line with fewer or more than five tab fields, an empty device type or
\* id, or an app id that is no integer
Malformed(raw) ==
    LET line_parts == strip_split(raw) IN
    \/ Len(line_parts) # 5
    \/ line_parts[1] = "" \/ line_parts[2] = ""
    \/ ~all_int(split_comma(line_parts[5]))

\* C21: a malformed line read during streaming adds at most one file-level
\* error and does not end the file's pipeline: handle_logfile goes on with
\* the next line.
C21_MalformedLineRecovered ==
    [][(hl'.pos = hl.pos + 1 /\ Malformed(hl'.last))
       => (/\ hl'.pc = "read"
           /\ hl'.errors \in {hl.errors, hl.errors + 1}
           /\ job_queue' = job_queue)]_vars

\* a line of five fields with device type, id and integer app ids whose
\* latitude or longitude is no number
BadGeo(raw) ==
    LET line_parts == strip_split(raw) IN
    /\ ~Malformed(raw)
    /\ (line_parts[3] \notin FloatLiterals \/ line_parts[4] \notin FloatLiterals)

\* C22: a line whose latitude or longitude is no number still parses to a
\* record, is not counted as an error and, when its device type has an
\* address, is put on the job queue as the next Job.
C22_BadGeoLineEnqueued ==
    [][(hl'.pos = hl.pos + 1 /\ BadGeo(hl'.last))
       => LET parsed == parse_appsinstalled(strip_split(hl'.last)) IN
          /\ parsed.kind = "record"
          /\ hl'.errors = hl.errors
          /\ truthy(dict_get(DEVICE_MEMC, parsed.rec.dev_type))
                => /\ Len(job_queue') = Len(job_queue) + 1
                   /\ job_queue'[Len(job_queue')].task = parsed.rec
                   /\ hl'.put = hl.put + 1]_vars

\* C22 witness: the line with the latitude "bad" was read, nothing was
\* counted as an error and its record is the Job last put on the queue.
C22_BadGeoJobWaiting ==
    /\ hl.pc = "alive" /\ hl.last = L_bad_geo /\ hl.errors = 0 /\ hl.put = 1
    /\ job_queue # <<>>
    /\ job_queue[Len(job_queue)].task.dev_id = "d3"
    /\ job_queue[Len(job_queue)].task.lat = PyStr("bad")

\* C23: within one write of insert_appsinstalled the sleep that follows the
\* k-th failed attempt lasts MEMC_BACKOFF_FACTOR * 2^k, k counted from 1, and
\* the sleeps are strictly increasing.
C23_BackoffDoubles ==
    h_kind = "memc" =>
        \A k \in 1..Len(h_wr.sleeps) :
            /\ h_wr.outcomes[k] # "ok"
            /\ h_wr.sleeps[k] = MEMC_BACKOFF_FACTOR * pow2(k)
            /\ k > 1 => h_wr.sleeps[k] > h_wr.sleeps[k - 1]

\* C23 witness: a write has slept 0.6 s after its first failed attempt and
\* 1.2 s after its second.
C23_TwoSleeps ==
    /\ h_kind = "memc" /\ h_wr.calls = 2
    /\ h_wr.sleeps = <<2 * MEMC_BACKOFF_FACTOR, 4 * MEMC_BACKOFF_FACTOR>>

\* the step is worker w's last client call of a write that did not succeed:
\* the attempts are used up on a falsy result, or the call raised
FailedWriteStep(w) ==
    /\ wk[w].pc = "flush" /\ wk[w].wr.pc = "loop"
    /\ \E o \in {"falsy", "raise"} :
          LET tried == [wk[w] EXCEPT !.wr = insert_attempt(@, o)] IN
          /\ tried.wr.pc \in {"returned", "raised"}
          /\ wk' = [wk EXCEPT ![w] = after_insert(tried)]

\* C24: when a batch write has failed, the worker counts all keys of the
\* batch in errors and none in processed, and it is not terminated: it goes
\* on with its next batch, its next dequeue or its report.
C24_FailedBatchCounted ==
    [][\A w \in Workers :
          FailedWriteStep(w)
          => /\ wk'[w].errors = wk[w].errors + len(wk[w].collector[wk[w].i].batch)
             /\ wk'[w].processed = wk[w].processed
             /\ wk'[w].pc \in {"flush", "get", "report"}]_vars

\* the device types whose client worker w has taken from CLIENTS (line 58)
\* for a write that is not over
clients_in_use(w) ==
    IF wk[w].pc = "flush" /\ wk[w].wr.pc = "loop"
    THEN {wk[w].collector[wk[w].i].dev_type} ELSE {}

\* C25: no cache client is used by two worker threads at the same time: two
\* workers are never both inside a write through the client of one device
\* type.
C25_ClientNotShared ==
    \A v \in Workers, w \in Workers :
        v # w => clients_in_use(v) \cap clients_in_use(w) = {}

\* C26: every Job put on the job queue has been dequeued by a worker by the
\* time handle_logfile has summed the results and returned, also when the
\* producer is slower than the workers' dequeue timeout: with every worker
\* returned normally, no Job is left on the queue.
C26_EveryJobDequeued ==
    (Drained /\ \A w \in Workers : wk[w].pc = "done")
    => /\ job_queue = <<>>
       /\ \A id \in 1..hl.put :
             \E w \in Workers : \E k \in 1..Len(wk[w].taken) : wk[w].taken[k] = id

\* C27: a worker flushes as soon as it has collected LINES_COUNT_IN_BATCH
\* Jobs since its last flush, so it never waits for a Job with a full batch;
\* after every flush its collector is empty and its collected count is 0; and
\* a step that changes a worker's collector is a step of that worker alone.
C27_FlushAtBatchSize ==
    /\ [](\A w \in Workers :
            /\ wk[w].pc = "get"
                  => /\ wk[w].collected < LINES_COUNT_IN_BATCH
                     /\ wk[w].collected = Len(wk[w].taken) % LINES_COUNT_IN_BATCH
            /\ wk[w].pc = "flush"
                  => (wk[w].collected >= LINES_COUNT_IN_BATCH \/ wk[w].is_queue_emty)
            /\ wk[w].pc \in {"get", "report", "done"}
                  => (wk[w].collected = 0 <=> wk[w].collector = <<>>)
            /\ wk[w].pc \in {"report", "done"} => wk[w].collected = 0)
    /\ [][\A w \in Workers :
            wk'[w].collector # wk[w].collector
            => (hl' = hl /\ \A v \in Workers \ {w} : wk'[v] = wk[v])]_vars

\* C27 witness: a worker has dequeued a full batch of Jobs, flushed it, and
\* waits for its next Job with an empty collector.
C27_FlushedFullBatch ==
    \E w \in Workers :
        /\ wk[w].pc = "get" /\ Len(wk[w].taken) = LINES_COUNT_IN_BATCH
        /\ wk[w].processed + wk[w].errors > 0
        /\ wk[w].collected = 0 /\ wk[w].collector = <<>>

\* C28: the backoff sleeps of insert_appsinstalled lie between two attempts of
\* the same write: no sleep follows a successful attempt or the last attempt, so
\* a write that has made at least one client call has slept fewer times than it
\* has called the client once it is over.
C28_SleepsOnlyBetweenAttempts ==
    (h_kind = "memc" /\ h_wr.pc \in {"returned", "raised"} /\ h_wr.calls >= 1)
    => /\ Len(h_wr.sleeps) <= h_wr.calls - 1
       /\ (h_wr.outcomes[h_wr.calls] = "ok" =>
              Len(h_wr.sleeps) = h_wr.calls - 1)

\* C29: the wrapper of store.retry calls the function again only after a
\* listed exception: an exception that is not listed ends the call by raising
\* into the caller, with no sleep for it and no further attempt; Storage.get
\* calls the storage once and raises every error of the storage, listed or
\* not, with no sleep.
C29_RetriesOnlyListedExceptions ==
    /\ h_kind = "store" =>
          /\ \A k \in 1..(Len(h_rt.outcomes) - 1) : h_rt.outcomes[k] = "listed"
          /\ Len(h_rt.sleeps) =
                Cardinality({k \in 1..Len(h_rt.outcomes) : h_rt.outcomes[k] = "listed"})
          /\ h_rt.pc = "raised" <=>
                (h_rt.calls >= 1 /\ h_rt.outcomes[h_rt.calls] = "other")
    /\ h_kind = "get" =>
          /\ h_rt.calls <= 1 /\ h_rt.sleeps = <<>>
          /\ h_rt.calls = 1 =>
                (h_rt.pc = "raised" <=> h_rt.outcomes[1] # "ok")

\* C29 witness: the wrapped function raised a listed exception, was called
\* again, raised an exception that is not listed, and the caller got that
\* exception after the one sleep of the first attempt.
C29_OtherExceptionPropagated ==
    /\ h_kind = "store" /\ h_pc = "done" /\ h_rt.pc = "raised"
    /\ h_rt.outcomes = <<"listed", "other">>
    /\ Len(h_rt.sleeps) = 1

\* C30: when main has renamed the file, handle_logfile did not stop on a line
\* it neither counted nor enqueued, and it has read the file to its last line
\* (stated for the environments whose file is fixed, where the number of lines
\* is known).
C30_RenamedFileFullyRead ==
    (renamed >= 1 /\ hl.task = 1)
    => /\ ended[1] # "parse_raised"
       /\ ~drawn(env) => hl.pos = Len(fixed_file(env))

\* C31: while handle_logfile runs, the result queue holds one tuple for every
\* worker thread that has terminated, the threads that met a record that
\* cannot be encoded included; so it holds THREADS_PER_WORKER tuples when
\* handle_logfile drains it.
C31_OneTuplePerTerminatedWorker ==
    hl.pc \in {"open", "read", "alive", "join"}
    => Len(result_queue) = Cardinality({w \in Workers : ~is_alive(w)})

\* the batch a collector holds for a device type, empty when it holds none
batch_of(collector, dev_type) ==
    LET at == {i \in 1..Len(collector) : collector[i].dev_type = dev_type} IN
    IF at = {} THEN EmptyDict ELSE collector[CHOOSE i \in at : TRUE].batch

\* C32: a Job a worker collects goes under its key dev_type:dev_id into the one
\* batch of its device type, replacing the value an earlier Job left under the
\* same key and leaving the other keys alone; and the write of a batch adds to
\* processed or to errors the number of distinct keys of that batch.
C32_CountsDistinctKeys ==
    [][\A w \in Workers :
        /\ (Len(wk'[w].taken) = Len(wk[w].taken) + 1 /\ wk'[w].pc # "dead")
           => LET job == Head(job_queue).task
                  key == <<job.dev_type, ":", job.dev_id>>
                  old == batch_of(wk[w].collector, job.dev_type)
                  new == batch_of(wk'[w].collector, job.dev_type)
              IN /\ DOMAIN new = (DOMAIN old) \cup {key}
                 /\ new[key] = <<job.lat.lit, job.lon.lit, job.apps>>
                 /\ \A k \in (DOMAIN old) \ {key} : new[k] = old[k]
                 /\ Cardinality({i \in 1..Len(wk'[w].collector) :
                                    wk'[w].collector[i].dev_type = job.dev_type}) = 1
                 /\ \A t \in {"idfa", "gaid", "adid", "dvid"} \ {job.dev_type} :
                        batch_of(wk'[w].collector, t) = batch_of(wk[w].collector, t)
        /\ (wk[w].pc = "flush" /\ wk'[w] # wk[w]
            /\ (wk'[w].pc # "flush" \/ wk'[w].i # wk[w].i))
           => (wk'[w].processed + wk'[w].errors)
                 - (wk[w].processed + wk[w].errors)
              = Cardinality(DOMAIN wk[w].collector[wk[w].i].batch)
      ]_vars

\* C32 witness: a worker has collected a full batch of Jobs that all have the
\* same key, has written it and has counted one key.
C32_SameKeyCountedOnce ==
    \E w \in Workers :
        /\ wk[w].pc = "get" /\ Len(wk[w].taken) = LINES_COUNT_IN_BATCH
        /\ wk[w].processed + wk[w].errors = 1

\* C33: under fair scheduling, main finishes its loop over the files, and
\* from then on handle_logfile has returned for every file, every worker
\* thread has terminated and every file of the list has been renamed.
C33_EverythingTerminates ==
    <>[](/\ main_pc = "done"
         /\ hl.pc \in {"idle", "returned"} /\ hl.task = Len(fnames)
         /\ \A w \in Workers : ~is_alive(w) \/ wk[w].pc = "none"
         /\ renamed = Len(fnames))

\* C33 witness: main is done after a file whose producer put Jobs, whose
\* worker threads all terminated, one of them by an exception, and whose
\* handle_logfile returned through the join.
C33_DoneAfterJoin ==
    /\ main_pc = "done" /\ hl.pc = "returned" /\ hl.put >= 1
    /\ ended[1] \in {"drained", "stopped_early"}
    /\ \E w \in Workers : wk[w].pc = "dead"
    /\ \E w \in Workers : wk[w].pc = "done"

\* C34: when handle_logfile starts on a file its counters, its queues and
\* its workers' counters are empty; while it handles the file no worker
\* counter decreases; every tuple of the result queue is the pair of counters
\* of a worker of this file that has returned; and the totals it returns with
\* count no more than the lines it read from this file.
C34_CountersFreshPerFile ==
    /\ [][/\ hl'.task # hl.task
             => /\ hl'.processed = 0 /\ hl'.errors = 0
                /\ \A w \in Workers : wk'[w].processed = 0 /\ wk'[w].errors = 0
          /\ hl'.task = hl.task
             => \A w \in Workers : /\ wk'[w].processed >= wk[w].processed
                                   /\ wk'[w].errors >= wk[w].errors]_vars
    /\ [](/\ hl.pc \in {"open", "read", "alive", "join"}
             => \A k \in 1..Len(result_queue) :
                   \E w \in Workers : /\ wk[w].pc = "done"
                                      /\ result_queue[k] = <<wk[w].processed, wk[w].errors>>
          /\ hl.pc = "returned" => hl.processed + hl.errors <= hl.pos)

\* C34 witness: the process has handled a first file, which it left through
\* the except clause with a worker's tuple still on that file's result queue,
\* and then a second file, for which it returns totals after the join.
C34_SecondFileSummed ==
    /\ hl.task = 2 /\ hl.pc = "returned"
    /\ ended[1] = "parse_raised" /\ ended[2] = "drained"
    /\ hl.processed + hl.errors >= 1

\* C35: once create_memc_clients has run, DEVICE_MEMC and CLIENTS are the
\* maps it built from the options, and no step changes either of them.
C35_MapsReadOnly ==
    /\ [](main_pc # "start"
          => /\ DEVICE_MEMC = device_memc_of(Options)
             /\ DOMAIN CLIENTS = {k \in DOMAIN DEVICE_MEMC : truthy(DEVICE_MEMC[k])}
             /\ \A k \in DOMAIN CLIENTS : CLIENTS[k].addr = DEVICE_MEMC[k])
    /\ [][main_pc # "start"
          => (DEVICE_MEMC' = DEVICE_MEMC /\ CLIENTS' = CLIENTS)]_vars

\* C35 witness: handle_logfile has returned after the join, with a batch
\* written and a batch whose write raised, and main is done.
C35_AfterWritesAndFailures ==
    /\ main_pc = "done" /\ ended[1] = "drained"
    /\ \E w \in Workers : wk[w].processed >= 1
    /\ \E w \in Workers : wk[w].errors >= 1
    /\ DOMAIN CLIENTS = {"idfa", "gaid", "dvid"}

\* the list of files a run of main started on the directory files would make
next_run(files) == sorted(glob(files))

\* C36: a rename by main replaces an undotted path by the path of the same
\* directory and base name with one "." in front, touches no other path, and
\* the list a later run would make of the directory holds neither path; when
\* main is done, a later run lists none of the files this run listed.
C36_RenamedNotListedAgain ==
    /\ [][renamed' = renamed + 1
          => LET old == returned[renamed + 1]
                 new == [head |-> old.head, dots |-> 1, base |-> old.base]
                 later == next_run(fs')
             IN /\ old.dots = 0 /\ old \in fs
                /\ old \notin fs' /\ new \in fs'
                /\ fs' \ {new} = fs \ {old, new}
                /\ \A j \in 1..Len(later) : later[j] \notin {old, new}]_vars
    /\ [](main_pc = "done"
          => LET later == next_run(fs) IN
             \A i \in 1..Len(fnames), j \in 1..Len(later) :
                 later[j].base # fnames[i].base)

\* C36 witness: main is done after renaming two files, whose dotted names are
\* in the directory and whose old names are not.
C36_TwoFilesRenamed ==
    /\ main_pc = "done" /\ renamed = 2
    /\ \A i \in 1..2 : /\ fnames[i] \notin fs
                        /\ [fnames[i] EXCEPT !.dots = 1] \in fs
    /\ next_run(fs) = <<>>

\* C37: a call through the store.retry wrapper whose function raised a listed
\* exception every time has made `tries` calls, has slept after each of them,
\* the last included, for backoff_factor * 2^attempt with attempt from 0, and
\* returns None without raising; a call of the function that succeeds is the
\* last one and its value is what the wrapper returns.
C37_ExhaustedReturnsNone ==
    h_kind = "store" =>
        /\ (\A k \in 1..Len(h_rt.outcomes) : h_rt.outcomes[k] = "listed")
           => /\ h_rt.pc # "raised"
              /\ Len(h_rt.sleeps) = h_rt.calls
              /\ \A k \in 1..Len(h_rt.sleeps) :
                    h_rt.sleeps[k] = BACKOFF_FACTOR * pow2(k - 1)
              /\ h_rt.pc = "returned"
                 => (h_rt.calls = MAX_RETRIES /\ h_rt.ret = "None")
        /\ \A k \in 1..Len(h_rt.outcomes) :
              h_rt.outcomes[k] = "ok"
              => /\ k = h_rt.calls /\ h_rt.pc = "returned" /\ h_rt.ret = "value"
                 /\ Len(h_rt.sleeps) = k - 1

\* C37 witness: the wrapper has returned None to its caller after three calls
\* that raised a listed exception and three sleeps.
C37_GaveUpWithNone ==
    /\ h_kind = "store" /\ h_pc = "done" /\ h_rt.pc = "returned"
    /\ h_rt.outcomes = <<"listed", "listed", "listed">>
    /\ h_rt.ret = "None"
    /\ h_rt.sleeps = <<BACKOFF_FACTOR, 2 * BACKOFF_FACTOR, 4 * BACKOFF_FACTOR>>

====
